---- MODULE Spec2Model ----
(***************************************************************************)
(* A model of the flight simulation engine of rocketpyAlpha.py: the        *)
(* FlightPhases and TimeNodes schedulers and the phase / time-node / step  *)
(* loop of Flight.__init__.                                                *)
(*                                                                         *)
(* Time is counted in integer ticks of half the tie-breaking epsilon       *)
(* (1e-7 s is EPS = 2 ticks), so that two instants can be distinct and     *)
(* still closer than the epsilon.  The rigid-body state is abstracted to   *)
(* the instant it belongs to and the way it was obtained; the indicators   *)
(* the loop reads from it (out of rail, vz < 0, z < 0), the number of      *)
(* roots of the event cubics and the answers of the user's triggers are    *)
(* inputs of the step.                                                     *)
(*                                                                         *)
(* Next to the flight loop and the post-processing replay that follows it  *)
(* (Spec), the FlightPhases and TimeNodes objects are driven directly      *)
(* through their interfaces (SpecPhases, SpecNodes), two flights are       *)
(* constructed on one rocket with a noisy parachute (SpecRuns), the        *)
(* dynamics models are called directly with the verbose mode on and off    *)
(* (SpecDynamics), and a LiquidMotor is given tanks and asked for its      *)
(* mass properties (SpecMotor).                                            *)
(***************************************************************************)
EXTENDS Integers, Sequences, FiniteSets, TLC

VARIABLES
    self,     \* the fields of the Flight object
    loop,     \* the locals of Flight.__init__: position in the loops, solver, time nodes
    hist,     \* what has been observed so far (trigger evaluations, steps, events)
    fp,       \* a FlightPhases object driven directly through its interface
    call,     \* the last call made on fp and how it ended
    tn,       \* a TimeNodes object driven directly, and the last calls made on it
    runs,     \* one rocket with a noisy parachute and the flights constructed on it
    dyn,      \* the objects the dynamics models read and write, and the last call
    motor     \* a LiquidMotor, the calls made on it and the last mass read

vars == <<self, loop, hist, fp, call, tn, runs, dyn, motor>>

----------------------------------------------------------------------------
\* Bounds of the model

MaxTime == 7          \* maxTime of the flight, in ticks
MaxT == 3             \* largest start time handed to addPhase by the direct driver
MaxPhases == 4        \* the direct driver stops adding at this list length
MaxDepth == 12        \* recursion depth after which add is taken to have failed
MaxNodes == 4         \* the direct driver stops adding time nodes at this list length
MaxTanks == 3         \* tanks added to a liquid motor
MaxSamples == 3       \* sampling nodes of a flight constructed on the noisy rocket
MaxRecords == 2       \* verbose calls of the dynamics models that are recorded

\* Program constants

EPS == 2              \* 1e-7 s, the shift applied on a tie and the merge window

None == "None"        \* derivative=None: a phase without a dynamics model

NoIndex == 1000       \* index=None: no insertion index given

----------------------------------------------------------------------------
\* Python lists

\* list[index] is defined for -len <= index < len
InRange(list, index) == index >= -Len(list) /\ index < Len(list)

\* the 1-based position of list[index]
Pos(list, index) == IF index < 0 THEN Len(list) + index + 1 ELSE index + 1

PyGet(list, index) == list[Pos(list, index)]

\* list.insert(index, x): before list[index], clamped to the ends
PyInsert(list, index, x) ==
    LET n == Len(list)
        k == IF index < 0 THEN (IF n + index < 0 THEN 0 ELSE n + index)
             ELSE (IF index > n THEN n ELSE index)
    IN  SubSeq(list, 1, k) \o <<x>> \o SubSeq(list, k + 1, n)

\* del list[index+1:]
PyDelAfter(list, index) ==
    LET n == Len(list)
        s == index + 1
        k == IF s < 0 THEN (IF n + s < 0 THEN 0 ELSE n + s)
             ELSE (IF s > n THEN n ELSE s)
    IN  SubSeq(list, 1, k)

----------------------------------------------------------------------------
\* FlightPhases

FlightPhase(t, derivative, callbacks, clear) ==
    [t |-> t, derivative |-> derivative, callbacks |-> callbacks, clear |-> clear]

\* a mutated slot test: ties are let in
FitsLoose(previousPhase, flightPhase, nextPhase) ==
    previousPhase.t <= flightPhase.t /\ flightPhase.t <= nextPhase.t

\* previousPhase.t < flightPhase.t < nextPhase.t
Fits(previousPhase, flightPhase, nextPhase) ==
    previousPhase.t < flightPhase.t /\ flightPhase.t < nextPhase.t

\* flightPhase.t += 1e-7
Shift(flightPhase) == [flightPhase EXCEPT !.t = @ + EPS]

\* The outcome of add: the list, how the call ended ("ok" or the exception
\* raised), the phase as inserted and the number of recursive calls made.
AddResult(list, status, flightPhase, depth) ==
    [list |-> list, status |-> status, phase |-> flightPhase, depth |-> depth]

RECURSIVE add(_, _, _, _)
add(list, flightPhase, index, depth) ==
    IF depth > MaxDepth THEN AddResult(list, "RecursionError", flightPhase, depth)
    ELSE IF Len(list) = 0 THEN
        AddResult(Append(list, flightPhase), "ok", flightPhase, depth)
    ELSE IF index = NoIndex THEN
        LET previousPhase == PyGet(list, -1) IN
        IF flightPhase.t > previousPhase.t THEN
            AddResult(Append(list, flightPhase), "ok", flightPhase, depth)
        ELSE IF flightPhase.t = previousPhase.t THEN
            add(list, Shift(flightPhase), NoIndex, depth + 1)
        ELSE
            add(list, flightPhase, -2, depth + 1)
    ELSE IF ~InRange(list, index) \/ ~InRange(list, index - 1) THEN
        AddResult(list, "IndexError", flightPhase, depth)
    ELSE
        LET nextPhase == PyGet(list, index)
            previousPhase == PyGet(list, index - 1)
        IN  IF Fits(previousPhase, flightPhase, nextPhase) THEN
                AddResult(PyInsert(list, index, flightPhase), "ok", flightPhase, depth)
            ELSE IF flightPhase.t < previousPhase.t THEN
                add(list, flightPhase, index - 1, depth + 1)
            ELSE IF flightPhase.t = previousPhase.t THEN
                add(list, Shift(flightPhase), index, depth + 1)
            ELSE IF flightPhase.t = nextPhase.t THEN
                add(list, Shift(flightPhase), index + 1, depth + 1)
            ELSE IF flightPhase.t > nextPhase.t THEN
                add(list, flightPhase, index + 1, depth + 1)
            ELSE
                \* previousPhase.t >= nextPhase.t and the phase strictly between:
                \* no branch is taken and add returns without inserting
                AddResult(list, "ok", flightPhase, depth)

addPhase(list, t, derivatives, callback, clear, index) ==
    add(list, FlightPhase(t, derivatives, callback, clear), index, 0)

flushAfter(list, index) == PyDelAfter(list, index)

----------------------------------------------------------------------------
\* The FlightPhases object driven directly

Indexes == {NoIndex} \cup (-MaxPhases .. MaxPhases)

NoCall == [op |-> "none", t |-> 0, index |-> NoIndex, status |-> "ok",
           phase |-> FlightPhase(0, None, <<>>, TRUE), depth |-> 0, before |-> <<>>]

AddPhaseCall ==
    /\ Len(fp) < MaxPhases
    /\ \E t \in 0 .. MaxT, index \in Indexes :
         LET r == addPhase(fp, t, "uDot", <<>>, TRUE, index) IN
         /\ fp' = r.list
         /\ call' = [op |-> "addPhase", t |-> t, index |-> index, status |-> r.status,
                     phase |-> r.phase, depth |-> r.depth, before |-> fp]
    /\ UNCHANGED <<self, loop, hist, tn, runs, dyn, motor>>

FlushAfterCall ==
    /\ Len(fp) > 0
    /\ \E index \in 0 .. Len(fp) - 1 :
         /\ fp' = flushAfter(fp, index)
         /\ call' = [NoCall EXCEPT !.op = "flushAfter", !.index = index, !.before = fp]
    /\ UNCHANGED <<self, loop, hist, tn, runs, dyn, motor>>

----------------------------------------------------------------------------
\* TimeNodes

TimeNode(t, parachutes, callbacks) ==
    [t |-> t, parachutes |-> parachutes, callbacks |-> callbacks]

addNode(list, t, parachutes, callbacks) ==
    Append(list, TimeNode(t, parachutes, callbacks))

\* math.ceil(a/b) and math.floor(a/b) for a >= 0, b > 0
CeilDiv(a, b) == (a + b - 1) \div b
FloorDiv(a, b) == a \div b

\* the nodes i*pcDt of one parachute, i in range(ceil(t_init/pcDt), floor(t_end/pcDt) + 1)
ParachuteNodeList(parachute, pcDt, t_init, t_end) ==
    LET first == CeilDiv(t_init, pcDt)
        last  == FloorDiv(t_end, pcDt)
    IN  [k \in 1 .. (IF last >= first THEN last - first + 1 ELSE 0) |->
            TimeNode((first + k - 1) * pcDt, <<parachute>>, <<>>)]

\* samplingPeriod[p] is 1/parachute.samplingRate in ticks
RECURSIVE addParachutes(_, _, _, _, _)
addParachutes(list, parachutes, samplingPeriod, t_init, t_end) ==
    IF parachutes = <<>> THEN list
    ELSE addParachutes(
            list \o ParachuteNodeList(Head(parachutes), samplingPeriod[Head(parachutes)],
                                      t_init, t_end),
            Tail(parachutes), samplingPeriod, t_init, t_end)

\* list.sort(key = node.t): stable
RECURSIVE InsertSorted(_, _)
InsertSorted(sorted, node) ==
    IF sorted = <<>> THEN <<node>>
    ELSE IF sorted[Len(sorted)].t <= node.t THEN Append(sorted, node)
    ELSE Append(InsertSorted(SubSeq(sorted, 1, Len(sorted) - 1), node), sorted[Len(sorted)])

RECURSIVE SortFrom(_, _)
SortFrom(sorted, rest) ==
    IF rest = <<>> THEN sorted ELSE SortFrom(InsertSorted(sorted, Head(rest)), Tail(rest))

sort(list) == SortFrom(<<>>, list)

Abs(x) == IF x < 0 THEN -x ELSE x

RECURSIVE MergeFrom(_, _)
MergeFrom(tmp_list, copy_list) ==
    IF copy_list = <<>> THEN tmp_list
    ELSE LET node == Head(copy_list)
             last == tmp_list[Len(tmp_list)]
         IN  IF Abs(node.t - last.t) < EPS THEN
                 MergeFrom([tmp_list EXCEPT ![Len(tmp_list)] =
                               [last EXCEPT !.parachutes = @ \o node.parachutes,
                                            !.callbacks = @ \o node.callbacks]],
                           Tail(copy_list))
             ELSE MergeFrom(Append(tmp_list, node), Tail(copy_list))

\* a merge that drops the nodes it folds instead of summing their subscriptions
RECURSIVE DropFrom(_, _)
DropFrom(tmp_list, copy_list) ==
    IF copy_list = <<>> THEN tmp_list
    ELSE IF Abs(Head(copy_list).t - tmp_list[Len(tmp_list)].t) < EPS
         THEN DropFrom(tmp_list, Tail(copy_list))
         ELSE DropFrom(Append(tmp_list, Head(copy_list)), Tail(copy_list))

mergeDropping(list) == DropFrom(<<list[1]>>, Tail(list))

\* merge is only called on a non-empty list (self.list[0])
merge(list) == MergeFrom(<<list[1]>>, Tail(list))

\* phase.timeNodes[0].parachutes = []; phase.timeNodes[0].callbacks = []
ClearFirst(list) == [list EXCEPT ![1] = TimeNode(list[1].t, <<>>, <<>>)]

----------------------------------------------------------------------------
\* Flight: the state before the simulation loop

NumParachutes == 2    \* the rocket carries at most this many parachutes
Chutes == 1 .. NumParachutes

\* the time a parachute waits between two samples (1/samplingRate) and its lag, in ticks
SamplingPeriods == {3}
Lags == {0, 3}

\* a state vector, abstracted to the instant it describes and where it came from
State(at, src) == [at |-> at, src |-> src]

\* the integer 0 the event fields are initialised with
NoState == State(-1, "0")

Sample(t, y) == [t |-> t, src |-> y.src]

Last(list) == list[Len(list)]

\* Rocket.addParachute called n times (lines 3670-3740)
Rockets ==
    UNION {{[parachutes |-> [i \in 1 .. n |-> i], samplingPeriod |-> sp, lag |-> lg,
             CdS |-> [p \in 1 .. n |-> p]] :
               sp \in [1 .. n -> SamplingPeriods], lg \in [1 .. n -> Lags]} :
           n \in 0 .. NumParachutes}

\* the initialSolution argument: None, or an array [t0, state] given by the caller
DefaultSolution == Sample(0, State(0, "init"))
GivenSolution == Sample(0, State(0, "given"))

\* the maxTime argument: the initial time itself, or a later time
MaxTimes == {0, MaxTime}

\* an attribute that was never assigned
Unset == -1

\* initialSolution=None
NoSolution == Sample(Unset, State(Unset, "None"))
InitialSolutions == {NoSolution, GivenSolution}

\* a flight whose terminal phase is scheduled one tick after maxTime
InitialPhasesLate(tInitial, maxTime) ==
    addPhase(addPhase(<<>>, tInitial, "uDotRail", <<>>, FALSE, NoIndex).list,
             maxTime + 1, None, <<>>, TRUE, NoIndex).list

\* lines 4304-4306: the rail phase and the terminal phase at maxTime
InitialPhases(tInitial, maxTime) ==
    addPhase(addPhase(<<>>, tInitial, "uDotRail", <<>>, FALSE, NoIndex).list,
             maxTime, None, <<>>, TRUE, NoIndex).list

\* lines 4241-4306.  self.tInitial is assigned only where initialSolution is None
\* (line 4286); with an array given, line 4305 reads an attribute that does not
\* exist and the phase list stays empty.
FlightInit(rocket, timeOvershoot, terminateOnApogee, maxTime, initialSolution) ==
    LET first == IF initialSolution = NoSolution THEN DefaultSolution ELSE initialSolution
    IN  [rocket |-> rocket,
         parachutes |-> rocket.parachutes,
         maxTime |-> maxTime,
         timeOvershoot |-> timeOvershoot,
         terminateOnApogee |-> terminateOnApogee,
         initialSolution |-> first,
         outOfRailTime |-> 0, outOfRailState |-> NoState,
         apogeeState |-> NoState, apogeeTime |-> 0,
         impactState |-> NoState,
         tFinal |-> -1,
         parachuteEvents |-> <<>>,
         parachuteCdS |-> 0,
         tInitial |-> IF initialSolution = NoSolution THEN 0 ELSE Unset,
         solution |-> <<first>>,
         t |-> first.t,
         y |-> State(first.t, first.src),
         state |-> NoState,
         flightPhases |-> IF initialSolution = NoSolution THEN InitialPhases(0, maxTime)
                          ELSE <<>>]

NoSolver == [t |-> 0, t_bound |-> 0, status |-> "none", derivative |-> None, steps |-> 0,
             phase_index |-> 0]

LoopStart ==
    [pc |-> "phase", error |-> "none",
     phase_index |-> 0, phase |-> FlightPhase(0, None, <<>>, TRUE), timeBound |-> 0,
     timeNodes |-> <<>>, node_index |-> 0, node |-> TimeNode(0, <<>>, <<>>),
     solver |-> NoSolver]

\* the loop is entered unless line 4305 raised
LoopInit(initialSolution) ==
    IF initialSolution = NoSolution THEN LoopStart
    ELSE [LoopStart EXCEPT !.pc = "raised", !.error = "AttributeError"]

\* what an event handler found when it started
NoHandler == [kind |-> "none"]

HistInit ==
    [evals |-> <<>>, fired |-> <<>>, steps |-> <<>>, events |-> <<>>, handler |-> NoHandler, railExits |-> <<>>,
     post |-> [status |-> "none", parachuteCdS |-> 0, replayed |-> {}]]

\* the whole machine as one value, handed from one statement of the loop to the next
Machine(s, l, h) == [self |-> s, loop |-> l, hist |-> h]

Raise(m, error) == [m EXCEPT !.loop.pc = "raised", !.loop.error = error]

Raised(m) == m.loop.pc = "raised"

----------------------------------------------------------------------------
\* Flight.__init__: the start of a flight phase (lines 4309-4353)

\* for callback in phase.callbacks: callback(self)   -- setattr(self, 'parachuteCdS', CdS)
\* callbacks that leave a CdS already installed in place
KeepFirstCdS(m, callbacks) ==
    IF callbacks = <<>> \/ m.self.parachuteCdS # 0 THEN m
    ELSE [m EXCEPT !.self.parachuteCdS = Last(callbacks)]

RunCallbacks(m, callbacks) ==
    IF callbacks = <<>> THEN m ELSE [m EXCEPT !.self.parachuteCdS = Last(callbacks)]

\* lines 4338-4353
PhaseTimeNodes(m, phase, timeBound) ==
    LET first == addNode(<<>>, phase.t, <<>>, <<>>)
        withParachutes ==
            IF ~m.self.timeOvershoot
            THEN addParachutes(first, m.self.parachutes, m.self.rocket.samplingPeriod,
                               phase.t, timeBound)
            ELSE first
        merged == merge(sort(addNode(withParachutes, timeBound, <<>>, <<>>)))
    IN  IF phase.clear THEN ClearFirst(merged) ELSE merged

PhaseStartImpl(m) ==
    LET phase_index == m.loop.phase_index
        phase == PyGet(m.self.flightPhases, phase_index)
        timeBound == PyGet(m.self.flightPhases, phase_index + 1).t
        m1 == RunCallbacks(m, phase.callbacks)
    IN  [m1 EXCEPT
            !.loop.phase = phase,
            !.loop.timeBound = timeBound,
            !.loop.solver = [t |-> phase.t, t_bound |-> timeBound, status |-> "running",
                             derivative |-> phase.derivative, steps |-> 0,
                             phase_index |-> phase_index],
            !.loop.timeNodes = PhaseTimeNodes(m1, phase, timeBound),
            !.loop.node_index = 0,
            !.loop.pc = "node"]

----------------------------------------------------------------------------
\* A parachute trigger is evaluated and fires

\* a list.remove that leaves the list as it is
RemoveNothing(list, x) == list

\* list.remove(x)
Remove(list, x) ==
    LET k == CHOOSE i \in 1 .. Len(list) : list[i] = x /\ \A j \in 1 .. i - 1 : list[j] # x
    IN  SubSeq(list, 1, k - 1) \o SubSeq(list, k + 1, Len(list))

Elements(list) == {list[i] : i \in 1 .. Len(list)}

\* the three signal appends and the call of parachute.trigger (lines 4374-4381, 4587-4592)
Evaluate(m, parachute, nodeT, y, fired) ==
    [m EXCEPT !.hist.evals = Append(@,
        [parachute |-> parachute, t |-> nodeT, at |-> y.at, selft |-> m.self.t,
         fired |-> fired, phase_index |-> m.loop.phase_index,
         phaseT |-> m.loop.phase.t, clear |-> m.loop.phase.clear,
         steps |-> Len(m.hist.steps)])]

\* self.parachutes.remove and the two addPhase calls (lines 4386-4391, 4597-4602)
Deploy(m, parachute, T) ==
    IF parachute \notin Elements(m.self.parachutes) THEN Raise(m, "ValueError")
    ELSE
    LET m1 == [m EXCEPT !.self.parachutes = Remove(@, parachute)]
        phase_index == m.loop.phase_index
        r1 == addPhase(m1.self.flightPhases, T, m.loop.phase.derivative, <<>>, TRUE,
                       phase_index + 1)
        r2 == addPhase(r1.list, T + m.self.rocket.lag[parachute], "uDotParachute",
                       <<m.self.rocket.CdS[parachute]>>, FALSE, phase_index + 2)
        status == IF r1.status # "ok" THEN r1.status ELSE r2.status
        after == IF r1.status # "ok" THEN r1.list ELSE r2.list
        m2 == [m1 EXCEPT
                !.self.flightPhases = after,
                !.hist.fired = Append(@,
                    [parachute |-> parachute, T |-> T, lag |-> m.self.rocket.lag[parachute],
                     derivative |-> m.loop.phase.derivative, phase_index |-> phase_index,
                     phaseT |-> m.loop.phase.t, status |-> status,
                     before |-> m.self.flightPhases, after |-> after,
                     steps |-> Len(m.hist.steps)])]
    IN  IF status # "ok" THEN Raise(m2, status) ELSE m2

\* a flight loop that keeps its solver running after an event
StayInLoops(m) ==
    [m EXCEPT
        !.loop.timeNodes = addNode(PyDelAfter(@, m.loop.node_index), m.self.t, <<>>, <<>>)]

\* phase.timeNodes.flushAfter(node_index); phase.timeNodes.addNode(self.t, [], []);
\* phase.solver.status = 'finished'
LeaveLoops(m) ==
    [m EXCEPT
        !.loop.timeNodes = addNode(PyDelAfter(@, m.loop.node_index), m.self.t, <<>>, <<>>),
        !.loop.solver.status = "finished"]

SaveEvent(m, parachute) ==
    [m EXCEPT !.self.parachuteEvents = Append(@, [t |-> m.self.t, parachute |-> parachute])]

\* lines 4386-4397
StrictFire(m, parachute) ==
    LET m1 == Deploy(m, parachute, m.loop.node.t)
    IN  IF Raised(m1) THEN m1 ELSE SaveEvent(LeaveLoops(m1), parachute)

\* for parachute in node.parachutes (lines 4373-4397); fires: the parachutes whose
\* trigger answers True
RECURSIVE FeedNode(_, _, _)
FeedNode(m, parachutes, fires) ==
    IF parachutes = <<>> \/ Raised(m) THEN m
    ELSE LET parachute == Head(parachutes)
             m1 == Evaluate(m, parachute, m.loop.node.t, m.self.y, parachute \in fires)
         IN  FeedNode(IF parachute \in fires THEN StrictFire(m1, parachute) ELSE m1,
                      Tail(parachutes), fires)

\* a bound that lets the solver run to the end of the phase
PhaseTimeBound(m, node_index) == m.loop.timeBound

\* phase.solver.t_bound = phase.timeNodes[node_index + 1].t
NodeTimeBound(m, node_index) == PyGet(m.loop.timeNodes, node_index + 1).t

\* lines 4359-4397
NodeStartImpl(m, fires) ==
    LET node_index == m.loop.node_index
        node == PyGet(m.loop.timeNodes, node_index)
        timeBound == NodeTimeBound(m, node_index)
        m1 == [m EXCEPT !.loop.node = node,
                        !.loop.solver.t_bound = timeBound,
                        !.loop.solver.status = "running",
                        !.loop.pc = "step"]
    IN  FeedNode(m1, node.parachutes, fires)

----------------------------------------------------------------------------
\* Flight.__init__: one turn of the step loop (lines 4400-4613)

Penultimate(list) == list[Len(list) - 1]

ReplaceLast(list, x) == [list EXCEPT ![Len(list)] = x]

Note(m, kind, t) ==
    [m EXCEPT !.hist.events = Append(@,
        [kind |-> kind, t |-> t, phase_index |-> m.loop.phase_index,
         steps |-> Len(m.hist.steps), replaced |-> Last(m.self.solution).t])]

\* phase.solver.step() and lines 4404-4411; the solver stops at t_bound
SolverStep(m, tNew) ==
    [m EXCEPT
        !.loop.solver.t = tNew,
        !.loop.solver.steps = @ + 1,
        !.loop.solver.status = IF tNew >= m.loop.solver.t_bound THEN "finished" ELSE @,
        !.self.solution = Append(@, Sample(tNew, State(tNew, "step"))),
        !.self.t = tNew,
        !.self.y = State(tNew, "step"),
        !.hist.steps = Append(@,
            [phase_index |-> m.loop.phase_index, phaseT |-> m.loop.phase.t,
             clear |-> m.loop.phase.clear, derivative |-> m.loop.solver.derivative,
             from |-> m.loop.solver.t, to |-> tNew, t0 |-> Last(m.self.solution).t,
             t1 |-> tNew, active |-> m.self.parachutes, evalsFrom |-> Len(m.hist.evals),
             samples |-> Len(m.self.solution) + 1])]

\* What the root search of lines 4437-4451 / 4520-4534 leaves in valid_t_root:
\* nothing (NoRoot), more than one root (ManyRoots), or one root strictly inside
\* the bracket (its instant)
NoRoot == -1
ManyRoots == -2
\* a root search that also keeps a root past the end of the bracket
RootsBeyond(m) ==
    {NoRoot, ManyRoots} \cup
    ((Penultimate(m.self.solution).t + 1) .. (Last(m.self.solution).t + 1))

Roots(m) ==
    {NoRoot, ManyRoots} \cup
    ((Penultimate(m.self.solution).t + 1) .. (Last(m.self.solution).t - 1))

\* t_root of line 4478, -(t1 - t0)*vz0/(vz1 - vz0) + t0 with vz1 < 0: an instant
\* inside the step when vz0 > 0, and t0 itself when vz0 = 0, which is the case of
\* the initial sample (vzInit = 0)
ApogeeRoots(m) ==
    IF Penultimate(m.self.solution).src = "init"
    THEN {Penultimate(m.self.solution).t}
    ELSE (Penultimate(m.self.solution).t + 1) .. (Last(m.self.solution).t - 1)

\* a terminal phase added without discarding the phases after the current one
TerminalPhaseUnflushed(m) ==
    LET r == addPhase(m.self.flightPhases, m.self.t, None, <<>>, TRUE, NoIndex)
    IN  IF r.status # "ok" THEN Raise(m, r.status)
        ELSE [m EXCEPT !.self.flightPhases = r.list]

\* flushAfter(phase_index); addPhase(self.t)
TerminalPhase(m) ==
    LET r == addPhase(flushAfter(m.self.flightPhases, m.loop.phase_index),
                      m.self.t, None, <<>>, TRUE, NoIndex)
    IN  IF r.status # "ok"
        THEN Raise([m EXCEPT !.self.flightPhases =
                        flushAfter(m.self.flightPhases, m.loop.phase_index)], r.status)
        ELSE [m EXCEPT !.self.flightPhases = r.list]

\* the handler of an event starts: what it may change is remembered
Enter(m, kind) ==
    IF Raised(m) THEN m
    ELSE [m EXCEPT !.hist.handler =
            [kind |-> kind, self |-> m.self, timeNodes |-> m.loop.timeNodes,
             solver |-> m.loop.solver, root |-> NoRoot]]

\* valid_t_root as the root search of the handler left it
Found(m, root) == [m EXCEPT !.hist.handler.root = root]

\* an event handler that replaces the last sample before it looks at its roots
RollBackFirst(m, root) ==
    IF Raised(m) THEN m
    ELSE Raise([m EXCEPT !.self.solution =
                    ReplaceLast(@, Sample(m.self.t, State(m.self.t, "rollback")))],
               "ValueError")

\* line 4451 / 4534: raise ValueError('Multiple roots found ...')
Ambiguous(m, root) ==
    IF Raised(m) THEN m ELSE Raise(m, "ValueError")

\* lines 4419-4467
RailExit(m, root) ==
    IF Raised(m) THEN m
    ELSE IF root = ManyRoots THEN Ambiguous(Found(m, root), root)
    ELSE IF root = NoRoot THEN Raise(Found(m, root), "IndexError")
    ELSE
    LET y == State(root, "railExit")
        m1 == Note([Found(m, root) EXCEPT !.self.t = root, !.self.y = y], "railExit", root)
        m2 == [m1 EXCEPT !.self.solution = ReplaceLast(@, Sample(root, y)),
                         !.self.outOfRailTime = root,
                         !.self.outOfRailState = y]
        r == addPhase(m2.self.flightPhases, root, "uDot", <<>>, TRUE, m.loop.phase_index + 1)
        m3 == [m2 EXCEPT !.hist.railExits =
                  Append(@, [t |-> root, phase_index |-> m.loop.phase_index,
                             phaseT |-> m.loop.phase.t, steps |-> Len(m.hist.steps),
                             status |-> r.status, flightPhases |-> r.list])]
    IN  IF r.status # "ok" THEN Raise(m3, r.status)
        ELSE LeaveLoops([m3 EXCEPT !.self.flightPhases = r.list])

\* lines 4469-4500
Apogee(m, t_root) ==
    IF Raised(m) THEN m
    ELSE
    LET apogeeState == State(t_root, "apogee")
        m1 == Note([m EXCEPT !.self.apogeeState = apogeeState, !.self.apogeeTime = t_root],
                   "apogee", t_root)
    IN  IF ~m.self.terminateOnApogee THEN m1
        ELSE LET m2 == TerminalPhase(
                         [m1 EXCEPT !.self.t = t_root,
                                    !.self.tFinal = t_root,
                                    !.self.state = apogeeState,
                                    !.self.solution = ReplaceLast(@, Sample(t_root, apogeeState))])
             IN  IF Raised(m2) THEN m2 ELSE LeaveLoops(m2)

\* lines 4502-4554
Impact(m, root) ==
    IF Raised(m) THEN m
    ELSE IF root = ManyRoots THEN Ambiguous(Found(m, root), root)
    ELSE IF root = NoRoot THEN Raise(Found(m, root), "IndexError")
    ELSE
    LET y == State(root, "impact")
        m1 == Note([Found(m, root) EXCEPT !.self.t = root, !.self.y = y], "impact", root)
        m2 == TerminalPhase(
                [m1 EXCEPT !.self.solution = ReplaceLast(@, Sample(root, y)),
                           !.self.impactState = y,
                           !.self.tFinal = root])
    IN  IF Raised(m2) THEN m2 ELSE LeaveLoops(m2)

----------------------------------------------------------------------------
\* The overshootable time nodes of the step just taken (lines 4557-4613)

\* lines 4559-4572: the nodes that are fed, or <<>> when there is nothing to feed
OvershootableNodes(m) ==
    IF ~m.self.timeOvershoot THEN <<>>
    ELSE
    LET withParachutes == addParachutes(<<>>, m.self.parachutes, m.self.rocket.samplingPeriod,
                                        Penultimate(m.self.solution).t, m.self.t)
        all == addNode(withParachutes, m.self.t, <<>>, <<>>)
        merged == merge(sort(all))
    IN  IF Len(all) > 1
        THEN IF merged[1].t = m.loop.phase.t /\ m.loop.phase.clear
             THEN ClearFirst(merged) ELSE merged
        ELSE <<>>

\* lines 4597-4613
OvershootFire(m, parachute, overshootableNode) ==
    LET m1 == Deploy(m, parachute, overshootableNode.t)
        y == State(overshootableNode.t, "interp")
    IN  IF Raised(m1) THEN m1
        ELSE SaveEvent(LeaveLoops(
                 Note([m1 EXCEPT !.self.t = overshootableNode.t,
                                 !.self.y = y,
                                 !.self.solution = ReplaceLast(@, Sample(overshootableNode.t, y))],
                      "trigger", overshootableNode.t)), parachute)

\* for parachute in overshootableNode.parachutes (lines 4585-4613)
RECURSIVE FeedOvershootable(_, _, _, _)
FeedOvershootable(m, overshootableNode, parachutes, fires) ==
    IF parachutes = <<>> \/ Raised(m) THEN m
    ELSE LET parachute == Head(parachutes)
             m1 == Evaluate(m, parachute, overshootableNode.t,
                            State(overshootableNode.t, "interp"), parachute \in fires)
         IN  FeedOvershootable(
                 IF parachute \in fires THEN OvershootFire(m1, parachute, overshootableNode)
                 ELSE m1,
                 overshootableNode, Tail(parachutes), fires)

\* timeIterator(overshootableNodes): every node but the last, and none after the
\* node a trigger fired at (flushAfter).  No trigger answers True before node
\* `at`; at node `at` the parachutes of `fires` do.
RECURSIVE FeedNodes(_, _, _, _, _)
FeedNodes(m, overshootableNodes, i, at, fires) ==
    IF Raised(m) \/ i > Len(overshootableNodes) - 1 THEN m
    ELSE IF i = at THEN
        FeedOvershootable(m, overshootableNodes[i], overshootableNodes[i].parachutes, fires)
    ELSE
        FeedNodes(FeedOvershootable(m, overshootableNodes[i],
                                    overshootableNodes[i].parachutes, {}),
                  overshootableNodes, i + 1, at, fires)

\* the step that is sampled ends where the event checks have left self.t
Accepted(m) == [m EXCEPT !.hist.steps[Len(m.hist.steps)].t1 = m.self.t]

Overshoot(m, at, fires) ==
    IF Raised(m) THEN m ELSE FeedNodes(Accepted(m), OvershootableNodes(m), 1, at, fires)

\* the ways the triggers can answer over the nodes that are fed
TriggerAnswers(m) ==
    LET nodes == IF Raised(m) THEN <<>> ELSE OvershootableNodes(m)
    IN  {[at |-> 0, fires |-> {}]} \cup
        UNION {{[at |-> i, fires |-> f] :
                   f \in (SUBSET Elements(nodes[i].parachutes)) \ {{}}} :
               i \in 1 .. Len(nodes) - 1}

----------------------------------------------------------------------------
\* The actions of Flight.__init__

Set(m) ==
    /\ self' = m.self
    /\ loop' = m.loop
    /\ hist' = m.hist
    /\ UNCHANGED <<fp, call, tn, runs, dyn, motor>>

Now == Machine(self, loop, hist)

\* timeIterator: the loop body runs while i < len(nodeList) - 1
MorePhases == loop.phase_index < Len(self.flightPhases) - 1
MoreNodes == loop.node_index < Len(loop.timeNodes) - 1

PhaseStart ==
    /\ loop.pc = "phase"
    /\ MorePhases
    /\ Set(PhaseStartImpl(Now))

\* line 4615, once the phase loop is over
Finish ==
    /\ loop.pc = "phase"
    /\ ~MorePhases
    /\ Set([Now EXCEPT !.self.tFinal = self.t, !.loop.pc = "done"])

\* Flight.postProcess, lines 5054-5062: the phases the replay loop visits
ReplayPhases(m) == 1 .. Len(m.self.flightPhases) - 1

\* if initTime < step[0] <= finalTime
InPhase(m, k, j) ==
    /\ m.self.flightPhases[k].t < m.self.solution[j].t
    /\ m.self.solution[j].t <= m.self.flightPhases[k + 1].t

\* parachuteCdS once the callbacks of phases 1 .. k have been applied again
ReplayCdS(m, k) ==
    LET inflations == {i \in 1 .. k : m.self.flightPhases[i].callbacks # <<>>}
    IN  IF inflations = {} THEN m.self.parachuteCdS
        ELSE Last(m.self.flightPhases[
                    CHOOSE i \in inflations : \A other \in inflations : other <= i].callbacks)

\* the phases whose replay calls a derivative that is None
ReplayFails(m) ==
    {k \in ReplayPhases(m) :
        /\ m.self.flightPhases[k].derivative = None
        /\ \E j \in 1 .. Len(m.self.solution) : InPhase(m, k, j)}

\* the phases the replay loop gets through, all of them unless a call fails
Replayable(m) ==
    {k \in ReplayPhases(m) : \A failing \in ReplayFails(m) : k < failing}

\* a replay that visits the phases one interval too far
ReplayClosed(m) ==
    {[sample |-> j, phase |-> k, derivative |-> m.self.flightPhases[k].derivative,
      parachuteCdS |-> ReplayCdS(m, k)] :
        <<k, j>> \in {pair \in Replayable(m) \X (1 .. Len(m.self.solution)) :
                         /\ m.self.flightPhases[pair[1]].t <= m.self.solution[pair[2]].t
                         /\ m.self.solution[pair[2]].t <= m.self.flightPhases[pair[1] + 1].t}}

\* currentDerivative(step[0], step[1:], verbose=True), one call per record
Replay(m) ==
    {[sample |-> j, phase |-> k, derivative |-> m.self.flightPhases[k].derivative,
      parachuteCdS |-> ReplayCdS(m, k)] :
        <<k, j>> \in {pair \in Replayable(m) \X (1 .. Len(m.self.solution)) :
                         InPhase(m, pair[1], pair[2])}}

\* Flight.postProcess on a flight that has been simulated
PostProcess ==
    /\ loop.pc = "done"
    /\ hist.post.status = "none"
    /\ LET m == Now
           last == IF Replayable(m) = {} THEN 0
                   ELSE CHOOSE k \in Replayable(m) : \A other \in Replayable(m) : other <= k
       IN  Set([m EXCEPT
                  !.self.parachuteCdS =
                      IF ReplayFails(m) # {}
                      THEN ReplayCdS(m, CHOOSE k \in ReplayFails(m) :
                                           \A other \in ReplayFails(m) : k <= other)
                      ELSE ReplayCdS(m, last),
                  !.hist.post = [status |-> IF ReplayFails(m) = {} THEN "ok" ELSE "TypeError",
                                 parachuteCdS |-> m.self.parachuteCdS,
                                 replayed |-> Replay(m)]])

NodeStart ==
    /\ loop.pc = "node"
    /\ MoreNodes
    /\ \E fires \in SUBSET Elements(PyGet(loop.timeNodes, loop.node_index).parachutes) :
         Set(NodeStartImpl(Now, fires))

PhaseEnd ==
    /\ loop.pc = "node"
    /\ ~MoreNodes
    /\ Set([Now EXCEPT !.loop.phase_index = @ + 1, !.loop.pc = "phase"])

\* The indicators read from the state after a step.  A rocket driven by the rail
\* model moves up the rail from rest (uDotRail returns no negative acceleration),
\* so it is neither descending nor below the ground; an event is located at a
\* tick strictly inside the step, so the step that detects one is two ticks long.
\* A rocket that starts on the ground is below it only after it has turned
\* downwards, and the apogee check runs before the impact check.
CanDetect(m) == Last(m.self.solution).t - Penultimate(m.self.solution).t >= 2
OffRailModel(m) == m.loop.phase.derivative # "uDotRail"

\* a check that forgets that rail exit has been recorded
OutOfRailAgain(m) == IF CanDetect(m) THEN BOOLEAN ELSE {FALSE}

OutOfRailChoices(m) ==
    IF m.self.outOfRailState = NoState /\ CanDetect(m) THEN BOOLEAN ELSE {FALSE}
DescendingChoices(m) ==
    IF ~Raised(m) /\ m.self.apogeeState = NoState /\ OffRailModel(m) /\ CanDetect(m)
    THEN BOOLEAN ELSE {FALSE}
BelowGroundChoices(m, stepLength) ==
    IF ~Raised(m) /\ OffRailModel(m) /\ stepLength >= 2 /\ m.self.apogeeState # NoState
    THEN BOOLEAN ELSE {FALSE}

Step ==
    /\ loop.pc = "step"
    /\ loop.solver.status = "running"
    /\ IF loop.solver.derivative = None
       THEN Set(Raise(Now, "TypeError"))
       ELSE
       \E tNew \in (loop.solver.t + 1) .. loop.solver.t_bound :
         LET stepped == SolverStep(Now, tNew) IN
         \E out \in OutOfRailChoices(stepped) :
         \E railRoot \in (IF out THEN Roots(stepped) ELSE {NoRoot}) :
           LET afterRail == IF out THEN RailExit(Enter(stepped, "railExit"), railRoot)
                            ELSE stepped IN
           \E descending \in DescendingChoices(afterRail) :
           \E t_root \in (IF descending THEN ApogeeRoots(afterRail) ELSE {NoRoot}) :
             LET afterApogee == IF descending THEN Apogee(afterRail, t_root) ELSE afterRail IN
             \E below \in BelowGroundChoices(afterApogee, tNew - Last(self.solution).t) :
             \E impactRoot \in (IF below THEN Roots(afterApogee) ELSE {NoRoot}) :
               LET afterImpact == IF below THEN Impact(Enter(afterApogee, "impact"), impactRoot)
                                  ELSE afterApogee
               IN  \E answer \in TriggerAnswers(afterImpact) :
                     Set(Overshoot(afterImpact, answer.at, answer.fires))

NodeEnd ==
    /\ loop.pc = "step"
    /\ loop.solver.status # "running"
    /\ Set([Now EXCEPT !.loop.node_index = @ + 1, !.loop.pc = "node"])

----------------------------------------------------------------------------
\* The TimeNodes object driven directly

\* TimeNodes(): an empty list, nothing called yet
NoNodes == [list |-> <<>>, before |-> <<>>, calls |-> <<>>]

\* the call `op` has turned the list into `list`; the last two calls are kept
Called(op, list) ==
    [list |-> list, before |-> tn.list,
     calls |-> IF tn.calls = <<>> THEN <<op>> ELSE <<Last(tn.calls), op>>]

\* the flight fills a TimeNodes object, sorts and merges it once, and builds a
\* new object for the next phase or step
Merged == tn.calls # <<>> /\ Last(tn.calls) = "merge"

NewNodesCall ==
    /\ Merged
    /\ tn' = NoNodes
    /\ UNCHANGED <<self, loop, hist, fp, call, runs, dyn, motor>>

\* the parachutes lists the flight creates nodes with: [] and [parachute]
NodeParachutes == {<<>>} \cup {<<p>> : p \in Chutes}

AddNodeCall ==
    /\ ~Merged
    /\ Len(tn.list) < MaxNodes
    /\ \E t \in 0 .. MaxT, parachutes \in NodeParachutes :
         tn' = Called("addNode", addNode(tn.list, t, parachutes, <<>>))
    /\ UNCHANGED <<self, loop, hist, fp, call, runs, dyn, motor>>

AddParachutesCall ==
    /\ ~Merged
    /\ \E t_init \in 0 .. MaxT, t_end \in 0 .. MaxT, period \in SamplingPeriods :
         LET samplingPeriod == [p \in Chutes |-> period]
             list == addParachutes(tn.list, <<1>>, samplingPeriod, t_init, t_end)
         IN  /\ Len(list) <= MaxNodes
             /\ tn' = Called("addParachutes", list)
    /\ UNCHANGED <<self, loop, hist, fp, call, runs, dyn, motor>>

SortCall ==
    /\ ~Merged
    /\ tn' = Called("sort", sort(tn.list))
    /\ UNCHANGED <<self, loop, hist, fp, call, runs, dyn, motor>>

\* merge reads self.list[0]: it is called on a non-empty list
MergeCall ==
    /\ ~Merged
    /\ tn.list # <<>>
    /\ tn' = Called("merge", merge(tn.list))
    /\ UNCHANGED <<self, loop, hist, fp, call, runs, dyn, motor>>

----------------------------------------------------------------------------
\* The dynamics models called directly (uDotRail, uDot, uDotParachute)

\* The objects a dynamics model works on.  Of the Flight: parachuteCdS and the
\* lists the verbose mode appends to, of which R3 and az are kept.  Of the
\* rocket: its mass, its two drag coefficients, and of its motor the burn out
\* time and the thrust at t = 0, 1, 2.  Of the environment: g.
World(parachuteCdS) ==
    [flight |-> [parachuteCdS |-> parachuteCdS, R3 |-> <<>>, az |-> <<>>],
     rocket |-> [mass |-> 1, powerOnDrag |-> 1, powerOffDrag |-> 2,
                 motor |-> [burnOutTime |-> 1, thrust |-> <<3, 0, 0>>]],
     env    |-> [g |-> 1]]

\* before, at and after the burn out time
Times == {0, 1, 2}

\* line 4722: the branch of uDot that reads the thrust, mass and inertia of the motor
MotorBurning(w, t) == t < w.rocket.motor.burnOutTime

\* lines 4733 and 4746
MotorThrust(w, t) == IF MotorBurning(w, t) THEN w.rocket.motor.thrust[t + 1] ELSE 0

\* lines 4789-4792: the drag curve uDot reads
DragCurve(w, t) ==
    IF t > w.rocket.motor.burnOutTime THEN "powerOnDrag" ELSE "powerOffDrag"

\* a selection that follows the motor branch
DragCurveOfBranch(w, t) ==
    IF MotorBurning(w, t) THEN "powerOnDrag" ELSE "powerOffDrag"

DragCoeff(w, curve) ==
    IF curve = "powerOnDrag" THEN w.rocket.powerOnDrag ELSE w.rocket.powerOffDrag

\* the state vector u, reduced to the vertical velocity and to whether the
\* rocket flies nose first or tail first
\* the state u: vertical velocity, where the stream meets the rocket, and spin
States == [vz : {-1, 0, 1}, nose : {"first", "last"}, omega : {0, 1}]

\* attackAngle of lines 4884-4885: pi when the stream comes from behind
AttackAngle(u) == IF u.nose = "last" /\ u.vz # 0 THEN "pi" ELSE "0"

\* self.R3.append([t, R3]); self.az.append([t, az])
Recorded(w, t, R3, az) ==
    [w EXCEPT !.flight.R3 = Append(@, <<t, R3>>), !.flight.az = Append(@, <<t, az>>)]

\* what a call leaves behind and what it returns
Derived(w, ret) == [world |-> w, ret |-> ret]

\* R3 of line 4656 and a3 of line 4659, the net acceleration along the rail
RailDrag(w, u) == -(u.vz * u.vz) * DragCoeff(w, "powerOnDrag")
RailAcceleration(w, t, u) ==
    (RailDrag(w, u) + w.rocket.motor.thrust[t + 1]) \div w.rocket.mass - w.env.g

\* the derivative list [vz, az, eDot, alpha]: velocity, linear acceleration,
\* quaternion derivative and angular acceleration
DerivativeList(vz, az, eDot, alpha) == <<vz, az, eDot, alpha>>

\* a rail model that lets the rocket slide back down the rail
uDotRailUnclamped(w, t, u, verbose) ==
    LET az == RailAcceleration(w, t, u)
    IN  Derived(IF verbose THEN Recorded(w, t, RailDrag(w, u), az) ELSE w,
                DerivativeList(u.vz, az, 0, 0))

\* lines 4640-4690
uDotRail(w, t, u, verbose) ==
    LET R3 == RailDrag(w, u)
        a3 == RailAcceleration(w, t, u)
        az == IF a3 > 0 THEN a3 ELSE 0
    IN  Derived(IF verbose THEN Recorded(w, t, R3, az) ELSE w,
                DerivativeList(u.vz, az, 0, 0))

\* a uDot that corrects the drag direction before it builds the derivative
uDotCorrected(w, t, u, verbose) ==
    LET Thrust == MotorThrust(w, t)
        R3 == -(u.vz * u.vz) * DragCoeff(w, DragCurve(w, t))
        corrected == IF verbose /\ AttackAngle(u) = "pi" THEN -R3 ELSE R3
        az == (corrected + Thrust) \div w.rocket.mass - w.env.g
    IN  Derived(IF verbose THEN Recorded(w, t, corrected, az) ELSE w,
                DerivativeList(u.vz, az, u.omega, -u.omega))

\* lines 4720-4932: the derivative is built (4872-4873) before the verbose
\* branch corrects the drag direction (4887-4888) and records
uDot(w, t, u, verbose) ==
    LET Thrust == MotorThrust(w, t)
        R3 == -(u.vz * u.vz) * DragCoeff(w, DragCurve(w, t))
        az == (R3 + Thrust) \div w.rocket.mass - w.env.g
        uDotList == DerivativeList(u.vz, az, u.omega, -u.omega)
        corrected == IF AttackAngle(u) = "pi" THEN -R3 ELSE R3
    IN  Derived(IF verbose THEN Recorded(w, t, corrected, az) ELSE w, uDotList)

\* lines 4950-5004
uDotParachute(w, t, u, verbose) ==
    LET CdS == w.flight.parachuteCdS
        mp == w.rocket.mass
        pseudoD == -CdS * Abs(u.vz)
        Dz == pseudoD * u.vz
        az == (Dz - w.env.g * mp) \div mp
    IN  Derived(IF verbose THEN Recorded(w, t, Dz, az) ELSE w,
                DerivativeList(u.vz, az, 0, 0))

Models == {"uDotRail", "uDot", "uDotParachute"}

Derivative(model, w, t, u, verbose) ==
    CASE model = "uDotRail" -> uDotRail(w, t, u, verbose)
      [] model = "uDot" -> uDot(w, t, u, verbose)
      [] model = "uDotParachute" -> uDotParachute(w, t, u, verbose)

\* the dynamics models have not been called
Uncalled(w) ==
    [world |-> w, before |-> w, model |-> "none", t |-> 0,
     u |-> [vz |-> 0, nose |-> "first", omega |-> 0], verbose |-> FALSE, ret |-> <<>>]

NoDynamics == Uncalled(World(0))

\* model(t, u, verbose) is called on the world as it is
DerivativeCall(model) ==
    /\ \E t \in Times, u \in States, verbose \in BOOLEAN :
         /\ verbose => Len(dyn.world.flight.R3) < MaxRecords
         /\ LET r == Derivative(model, dyn.world, t, u, verbose)
            IN  dyn' = [world |-> r.world, before |-> dyn.world, model |-> model, t |-> t,
                        u |-> u, verbose |-> verbose, ret |-> r.ret]
    /\ UNCHANGED <<self, loop, hist, fp, call, tn, runs, motor>>

uDotRailCall == DerivativeCall("uDotRail")

uDotCall == DerivativeCall("uDot")

uDotParachuteCall == DerivativeCall("uDotParachute")

----------------------------------------------------------------------------
\* LiquidMotor (src/rocketpy/motors/LiquidMotor.py), driven through its interface

\* the tanks a motor can be given: mass, centre of mass in the tank's own frame,
\* inertia and net mass flow rate, at one instant
Tanks == [mass : {1, 2}, centerOfMass : {1}, inertiaXX : {1}, netMassFlowRate : {-1, -2}]
Positions == {0, 3}

\* a quotient of two integers, and the value of an attribute that was never assigned
Quotient(num, den) == [set |-> TRUE, num |-> num, den |-> den]
Whole(n) == Quotient(n, 1)
Unassigned == [set |-> FALSE, num |-> 0, den |-> 1]

RECURSIVE Total(_)
Total(values) == IF values = <<>> THEN 0 ELSE Head(values) + Total(Tail(values))

TankMass(positioned_tank) == positioned_tank.tank.mass
TankBalance(positioned_tank) ==
    positioned_tank.tank.mass * (positioned_tank.position + positioned_tank.tank.centerOfMass)
TankFlow(positioned_tank) == positioned_tank.tank.netMassFlowRate

\* LiquidMotor.__init__, line 88; massFlowRate and the mass properties are
\* assigned by the evaluate methods only
NoTanks ==
    [positioned_tanks |-> <<>>, centerOfMass |-> Unassigned, Ixx |-> Unassigned,
     Iyy |-> Unassigned, massFlowRate |-> Unassigned, added |-> <<>>,
     read |-> [status |-> "none", t |-> 0, mass |-> 0]]

\* lines 95-109
evaluateMassFlowRate(lm) ==
    [lm EXCEPT !.massFlowRate = Whole(Total([k \in DOMAIN lm.positioned_tanks |-> TankFlow(lm.positioned_tanks[k])]))]

\* lines 117-139: massBalance / totalMass
evaluateCenterOfMass(lm) ==
    LET totalMass == Total([k \in DOMAIN lm.positioned_tanks |-> TankMass(lm.positioned_tanks[k])])
        massBalance == Total([k \in DOMAIN lm.positioned_tanks |-> TankBalance(lm.positioned_tanks[k])])
    IN  [lm EXCEPT !.centerOfMass = Quotient(massBalance, totalMass)]

\* lines 141-166: the parallel axis sum about centerOfMass = B/M, written over the
\* common denominator M*M; Iyy is assigned inside the loop
evaluateInertia(lm) ==
    LET cm == evaluateCenterOfMass(lm)
        M == cm.centerOfMass.den
        B == cm.centerOfMass.num
        Term(positioned_tank) ==
            positioned_tank.tank.inertiaXX * M * M
            + positioned_tank.tank.mass
              * ((positioned_tank.position + positioned_tank.tank.centerOfMass) * M - B)
              * ((positioned_tank.position + positioned_tank.tank.centerOfMass) * M - B)
        Ixx == Quotient(Total([k \in DOMAIN cm.positioned_tanks |-> Term(cm.positioned_tanks[k])]), M * M)
    IN  [cm EXCEPT !.Ixx = IF cm.positioned_tanks = <<>> THEN Whole(0) ELSE Ixx,
                   !.Iyy = IF cm.positioned_tanks = <<>> THEN Whole(0) ELSE Ixx]

\* lines 168-182
addTank(lm, tank, position) ==
    evaluateInertia(evaluateCenterOfMass(
        [lm EXCEPT !.positioned_tanks = Append(@, [tank |-> tank, position |-> position])]))

\* lines 90-93: self.massFlowRate.integral(0, t), of a rate that is constant
mass(lm, t) ==
    IF ~lm.massFlowRate.set
    THEN [lm EXCEPT !.read = [status |-> "AttributeError", t |-> t, mass |-> 0]]
    ELSE [lm EXCEPT !.read = [status |-> "ok", t |-> t, mass |-> lm.massFlowRate.num * t]]

addTankCall ==
    /\ Len(motor.positioned_tanks) < MaxTanks
    /\ \E tank \in Tanks, position \in Positions :
          motor' = [addTank(motor, tank, position)
                       EXCEPT !.added = Append(@, [tank |-> tank, position |-> position]),
                              !.read = NoTanks.read]
    /\ UNCHANGED <<self, loop, hist, fp, call, tn, runs, dyn>>

evaluateMassFlowRateCall ==
    /\ motor' = [evaluateMassFlowRate(motor) EXCEPT !.read = NoTanks.read]
    /\ UNCHANGED <<self, loop, hist, fp, call, tn, runs, dyn>>

massCall ==
    /\ \E t \in Times : motor' = mass(motor, t)
    /\ UNCHANGED <<self, loop, hist, fp, call, tn, runs, dyn>>

----------------------------------------------------------------------------
\* Flights constructed one after the other on one rocket (lines 5620-5632)

\* the values np.random.normal yields, in fifths of the noise deviation
Draws == {-5, 0, 5}

\* noiseCorr = (noise[2], (1 - noise[2]**2)**0.5), in fifths: (0, 1) and (0.6, 0.8)
NoiseCorrs == {<<0, 5>>, <<3, 4>>}

\* the trigger answers True when the noise added to the pressure reaches this
Thresholds == {3, 4}

NoneFired == Unset

\* Rocket.addParachute: noiseSignal = [[-1e-6, np.random.normal(...)]].  `stream`
\* is what the generator yields after np.random.seed(seed), `drawn` how much of
\* it has been used; `results` holds the trigger time of each finished flight,
\* which decides its phase list and its solution.
addParachute(noiseCorr, first, stream, threshold) ==
    [noiseCorr |-> noiseCorr, cleanPressureSignal |-> <<>>, noisyPressureSignal |-> <<>>,
     noiseSignal |-> <<(<<-1, first>>)>>, stream |-> stream, drawn |-> 0,
     threshold |-> threshold, pc |-> "idle", node |-> 0, results |-> <<>>]

\* no noisy rocket is driven
NoRuns == addParachute(<<0, 5>>, 0, [i \in 1 .. MaxSamples |-> 0], 3)

\* parachute.noiseFunction: alpha*noiseSignal[-1][1] + beta*np.random.normal(...)
noiseFunction(r) ==
    (r.noiseCorr[1] * Last(r.noiseSignal)[2] + r.noiseCorr[2] * r.stream[r.drawn + 1]) \div 5

\* self.env.pressure at the altitude the rocket has at a sampling node
Pressure(node) == 10 - node

\* the three appends of one evaluation that leave the noisy signal out
SaveWithoutNoisy(r, t, pressure, noise) ==
    [r EXCEPT !.cleanPressureSignal = Append(@, <<t, pressure>>),
              !.noiseSignal = Append(@, <<t, noise>>),
              !.drawn = @ + 1]

\* lines 4375-4379 and 4586-4590: the pressure, the noise and their sum are saved
\* under the time of the node
Save(r, t, pressure, noise) ==
    [r EXCEPT !.cleanPressureSignal = Append(@, <<t, pressure>>),
              !.noiseSignal = Append(@, <<t, noise>>),
              !.noisyPressureSignal = Append(@, <<t, pressure + noise>>),
              !.drawn = @ + 1]

\* np.random.seed(seed) before a construction
SeedCall ==
    /\ runs.pc = "idle"
    /\ Len(runs.results) < 2
    /\ runs' = [runs EXCEPT !.drawn = 0, !.pc = "seeded"]
    /\ UNCHANGED <<self, loop, hist, fp, call, tn, dyn, motor>>

\* Flight(rocket=..., environment=...): the flight works on the rocket's parachutes
FlightCall ==
    /\ runs.pc = "seeded"
    /\ runs' = [runs EXCEPT !.pc = "running", !.node = 0]
    /\ UNCHANGED <<self, loop, hist, fp, call, tn, dyn, motor>>

\* lines 4373-4381 (strict nodes) and 4583-4591 (overshootable nodes): the noise is
\* drawn, the signals are saved and the trigger is fed
FeedParachute ==
    /\ runs.pc = "running"
    /\ runs.node < MaxSamples
    /\ LET noise == noiseFunction(runs)
           fed == Save(runs, runs.node, Pressure(runs.node), noise)
       IN  runs' = IF noise >= runs.threshold
                   THEN [fed EXCEPT !.results = Append(@, runs.node), !.pc = "idle"]
                   ELSE [fed EXCEPT !.node = @ + 1]
    /\ UNCHANGED <<self, loop, hist, fp, call, tn, dyn, motor>>

\* the flight ends without the parachute having been triggered
FlightEnd ==
    /\ runs.pc = "running"
    /\ runs.node = MaxSamples
    /\ runs' = [runs EXCEPT !.results = Append(@, NoneFired), !.pc = "idle"]
    /\ UNCHANGED <<self, loop, hist, fp, call, tn, dyn, motor>>

InitRuns ==
    /\ self = FlightInit([parachutes |-> <<>>, samplingPeriod |-> <<>>, lag |-> <<>>,
                          CdS |-> <<>>], TRUE, FALSE, MaxTime, NoSolution)
    /\ loop = LoopStart
    /\ hist = HistInit
    /\ fp = <<>>
    /\ call = NoCall
    /\ tn = NoNodes
    /\ \E noiseCorr \in NoiseCorrs, first \in Draws, threshold \in Thresholds,
          stream \in [1 .. MaxSamples -> Draws] :
         runs = addParachute(noiseCorr, first, stream, threshold)
    /\ dyn = NoDynamics
    /\ motor = NoTanks

NextRuns ==
    \/ SeedCall
    \/ FlightCall
    \/ FeedParachute
    \/ FlightEnd

SpecRuns == InitRuns /\ [][NextRuns]_vars

----------------------------------------------------------------------------
\* Specifications

Init ==
    /\ \E rocket \in Rockets, timeOvershoot \in BOOLEAN, terminateOnApogee \in BOOLEAN,
          maxTime \in MaxTimes, initialSolution \in InitialSolutions :
         /\ self = FlightInit(rocket, timeOvershoot, terminateOnApogee, maxTime,
                              initialSolution)
         /\ loop = LoopInit(initialSolution)
    /\ hist = HistInit
    /\ fp = <<>>
    /\ call = NoCall
    /\ tn = NoNodes
    /\ runs = NoRuns
    /\ dyn = NoDynamics
    /\ motor = NoTanks

Next ==
    \/ PhaseStart
    \/ NodeStart
    \/ Step
    \/ NodeEnd
    \/ PhaseEnd
    \/ Finish
    \/ PostProcess

Spec == Init /\ [][Next]_vars

\* the flight is run to its end: nothing but the loop itself decides when it stops
FairSpec == Spec /\ WF_vars(Next)

InitPhases ==
    /\ self = FlightInit([parachutes |-> <<>>, samplingPeriod |-> <<>>, lag |-> <<>>,
                          CdS |-> <<>>], TRUE, FALSE, MaxTime, NoSolution)
    /\ loop = LoopStart
    /\ hist = HistInit
    /\ fp = <<>>
    /\ call = NoCall
    /\ tn = NoNodes
    /\ runs = NoRuns
    /\ dyn = NoDynamics
    /\ motor = NoTanks

NextPhases ==
    \/ AddPhaseCall
    \/ FlushAfterCall

SpecPhases == InitPhases /\ [][NextPhases]_vars

NextNodes ==
    \/ NewNodesCall
    \/ AddNodeCall
    \/ AddParachutesCall
    \/ SortCall
    \/ MergeCall

SpecNodes == InitPhases /\ [][NextNodes]_vars

InitDynamics ==
    /\ self = FlightInit([parachutes |-> <<>>, samplingPeriod |-> <<>>, lag |-> <<>>,
                          CdS |-> <<>>], TRUE, FALSE, MaxTime, NoSolution)
    /\ loop = LoopStart
    /\ hist = HistInit
    /\ fp = <<>>
    /\ call = NoCall
    /\ tn = NoNodes
    /\ runs = NoRuns
    /\ \E parachuteCdS \in {0, 2} : dyn = Uncalled(World(parachuteCdS))
    /\ motor = NoTanks

NextDynamics ==
    \/ uDotRailCall
    \/ uDotCall
    \/ uDotParachuteCall

SpecDynamics == InitDynamics /\ [][NextDynamics]_vars

\* a LiquidMotor as its constructor leaves it, then any calls of its methods
InitMotor == InitPhases

NextMotor ==
    \/ addTankCall
    \/ evaluateMassFlowRateCall
    \/ massCall

SpecMotor == InitMotor /\ [][NextMotor]_vars


----------------------------------------------------------------------------
\* Properties of FlightPhases (checked under SpecPhases)

StrictlyIncreasing(list) == \A i \in 1 .. Len(list) - 1 : list[i].t < list[i + 1].t

RemoveAt(list, k) == SubSeq(list, 1, k - 1) \o SubSeq(list, k + 1, Len(list))

\* `after` is `before` with `phase` put in at one place
InsertedOnce(before, after, phase) ==
    /\ Len(after) = Len(before) + 1
    /\ \E k \in 1 .. Len(after) : after[k] = phase /\ RemoveAt(after, k) = before

\* C1: after any sequence of addPhase calls (with or without an insertion index)
\* and flushAfter calls, the start times of the phases of the list are strictly
\* increasing from the first phase to the last.
C1_PhasesStrictlyIncreasing == StrictlyIncreasing(fp)

\* an indexed addPhase met a tie, shifted the new phase and put it into a list
\* that then holds three phases or more
C1_Witness ==
    /\ call.op = "addPhase"
    /\ call.status = "ok"
    /\ call.index # NoIndex
    /\ call.phase.t > call.t
    /\ Len(fp) >= 3
    /\ InsertedOnce(call.before, fp, call.phase)

\* C3: for every non-empty list with strictly increasing start times, every
\* start time and every insertion index within the list, addPhase returns
\* without raising after finitely many recursive calls and the new phase is in
\* the list exactly once.
C3_AddPhaseNeverFatal ==
    (/\ call.op = "addPhase"
     /\ Len(call.before) > 0
     /\ StrictlyIncreasing(call.before)
     /\ call.index # NoIndex
     /\ call.index >= 0
     /\ call.index < Len(call.before))
    => (/\ call.status = "ok"
        /\ call.depth <= MaxDepth
        /\ InsertedOnce(call.before, fp, call.phase))

\* the call gave addPhase the start time of a neighbour of the slot it named: of
\* the last phase when no index was given, else of the phase at the index or of
\* the phase before it
TiesWithNeighbour ==
    /\ call.op = "addPhase"
    /\ Len(call.before) > 0
    /\ StrictlyIncreasing(call.before)
    /\ IF call.index = NoIndex
       THEN call.t = Last(call.before).t
       ELSE /\ call.index >= 1
            /\ call.index < Len(call.before)
            /\ \/ call.t = call.before[call.index + 1].t
               \/ call.t = call.before[call.index].t

\* the new phase went in with its start time raised by EPS once or several times
\* and the phases that were in the list are as they were, in the same order
InsertedShifted ==
    /\ call.status = "ok"
    /\ call.phase.t > call.t
    /\ (call.phase.t - call.t) % EPS = 0
    /\ InsertedOnce(call.before, fp, call.phase)

\* C14: when addPhase is given a start time equal to the start time of a
\* neighbouring phase already in the list, the new phase is not rejected: it is
\* inserted with its own start time raised by 1e-7 (again for each further tie),
\* and the start times, models, callbacks and order of the phases already in the
\* list are unchanged.
C14_TieIsShiftedNotRejected == TiesWithNeighbour => InsertedShifted

----------------------------------------------------------------------------
\* Properties of the flight loop (checked under Spec)

\* the phase scheduled for a trigger sits directly after the current phase, starts
\* at `start`, uses the model of the current phase and is marked clear
LagPhaseAt(f, start) ==
    /\ Len(f.after) >= f.phase_index + 2
    /\ f.after[f.phase_index + 2].t = start
    /\ f.after[f.phase_index + 2].derivative = f.derivative
    /\ f.after[f.phase_index + 2].clear

\* the parachute phase comes directly after the lag phase and starts at `start`
ParachutePhaseAt(f, start) ==
    /\ Len(f.after) >= f.phase_index + 3
    /\ f.after[f.phase_index + 3].t = start
    /\ f.after[f.phase_index + 3].derivative = "uDotParachute"
    /\ ~f.after[f.phase_index + 3].clear

\* C2: when a parachute with lag L fires at sample time T during a phase with
\* model D (strict or overshoot sampling, every L >= 0, every T in the phase),
\* the phase list then holds, directly after the current phase, a clear phase
\* that starts exactly at T and uses D, and directly after it a phase that
\* starts exactly at T + L and uses the parachute model.
C2_TriggerSchedulesPhases ==
    \A k \in 1 .. Len(hist.fired) :
        /\ hist.fired[k].status = "ok"
        /\ LagPhaseAt(hist.fired[k], hist.fired[k].T)
        /\ ParachutePhaseAt(hist.fired[k], hist.fired[k].T + hist.fired[k].lag)

StepsAfter(f) == f.steps + 1 .. Len(hist.steps)

\* no step after the firing f is taken by the solver of the phase f fired in (a
\* phase is known by its start time) or of an earlier phase
NoFurtherStepInPhase(f) ==
    \A j \in StepsAfter(f) :
        /\ hist.steps[j].phase_index > f.phase_index
        /\ hist.steps[j].phaseT > f.phaseT

\* C4 as stated: after a parachute trigger fires during a phase, the solver of
\* that phase takes no further integration step and the next integration step is
\* taken by the solver of the phase that starts at the trigger time, also when
\* several parachutes fire at the same sample time.
C4_NextStepFromTriggerTime ==
    \A k \in 1 .. Len(hist.fired) :
        /\ NoFurtherStepInPhase(hist.fired[k])
        /\ \A j \in StepsAfter(hist.fired[k]) :
              j = hist.fired[k].steps + 1 => hist.steps[j].phaseT = hist.fired[k].T

\* the phases of the list that come after position i (a Python index) and last
\* EPS or longer: only these get a time node of their own
LongPhasesAfter(list, i) ==
    {n \in i + 2 .. Len(list) - 1 : list[n + 1].t - list[n].t >= EPS}

\* the firing f is the last one of its sample time
LastOfItsInstant(k) ==
    \A n \in k + 1 .. Len(hist.fired) : hist.fired[n].steps # hist.fired[k].steps

\* the next step after the firing hist.fired[k] is taken, from the start of its
\* phase, by the solver of the first later phase that lasts EPS or longer
NextStepByFirstLongPhase(k) ==
    \A j \in StepsAfter(hist.fired[k]) :
        (j = hist.fired[k].steps + 1 /\ LastOfItsInstant(k)) =>
            /\ hist.steps[j].from = hist.steps[j].phaseT
            /\ hist.steps[j].phase_index + 1 \in
                  LongPhasesAfter(hist.fired[k].after, hist.fired[k].phase_index)
            /\ \A n \in LongPhasesAfter(hist.fired[k].after, hist.fired[k].phase_index) :
                  hist.steps[j].phase_index + 1 <= n

\* C4 (amended): after a parachute trigger fires during a phase, the solver of
\* that phase takes no further integration step, also when several parachutes
\* fire at the same sample time.  When the trigger time T is not earlier than the
\* start of the current phase, the phase directly after the current one starts at
\* T if T is later than the start of the current phase, and EPS or more after T
\* if T is the start of the current phase, and the next integration step is
\* taken, from the start of its phase, by the solver of the first later phase
\* that lasts EPS or longer.
C4_NoFurtherStepInPhase ==
    \A k \in 1 .. Len(hist.fired) :
        /\ NoFurtherStepInPhase(hist.fired[k])
        /\ hist.fired[k].T >= hist.fired[k].phaseT =>
              /\ hist.fired[k].status = "ok" =>
                    IF hist.fired[k].T > hist.fired[k].phaseT
                    THEN LagPhaseAt(hist.fired[k], hist.fired[k].T)
                    ELSE hist.fired[k].after[hist.fired[k].phase_index + 2].t
                             >= hist.fired[k].T + EPS
              /\ NextStepByFirstLongPhase(k)

\* two parachutes fired at the same sample time, their phases were scheduled and
\* the flight took its next step
C4_Witness ==
    \E k \in 2 .. Len(hist.fired) :
        /\ hist.fired[k].steps = hist.fired[k - 1].steps
        /\ hist.fired[k].T = hist.fired[k - 1].T
        /\ hist.fired[k].status = "ok"
        /\ Len(hist.steps) > hist.fired[k].steps

\* the state handed to the trigger is the state at the instant of the node, and
\* the simulation time is that instant
AtItsInstant(e) == e.selft = e.t /\ e.at = e.t

\* the solver has not gone past a node of the phase that still waits with
\* parachutes to sample
NeverPastPendingNode ==
    loop.pc = "step" =>
        \A n \in loop.node_index + 2 .. Len(loop.timeNodes) :
            loop.timeNodes[n].parachutes # <<>> => loop.solver.t <= loop.timeNodes[n].t

NoShortPhase ==
    \A i \in 1 .. Len(self.flightPhases) - 1 :
        self.flightPhases[i + 1].t - self.flightPhases[i].t >= EPS

EvalsOfStep(j) ==
    hist.steps[j].evalsFrom + 1 ..
        (IF j < Len(hist.steps) THEN hist.steps[j + 1].evalsFrom ELSE Len(hist.evals))

\* the sampling instants of parachute p strictly inside the accepted step j
InstantsInside(j, p) ==
    {i \in hist.steps[j].t0 + 1 .. hist.steps[j].t1 - 1 :
        i % self.rocket.samplingPeriod[p] = 0}

\* parachute p was sampled at instant i of step j on the state interpolated at i,
\* or an earlier instant of the step fired a trigger
SampledOrCutShort(j, p, i) ==
    \/ \E n \in EvalsOfStep(j) :
          /\ hist.evals[n].parachute = p
          /\ hist.evals[n].t = i
          /\ hist.evals[n].at = i
    \/ \E n \in EvalsOfStep(j) : hist.evals[n].fired /\ hist.evals[n].t < i

\* C7: with timeOvershoot on, no sampling instant is missed: after each accepted
\* step from t0 to t1 (t1 the event time when the step was rolled back to an
\* event) the trigger of every still-active parachute is evaluated, in increasing
\* time order and on the interpolated state, at each of its sampling instants
\* strictly inside (t0, t1), unless an earlier instant of the step fired.
C7_NoSamplingInstantMissed ==
    (self.timeOvershoot /\ loop.pc # "raised") =>
        \A j \in 1 .. Len(hist.steps) :
            /\ \A p \in Elements(hist.steps[j].active) :
                  \A i \in InstantsInside(j, p) : SampledOrCutShort(j, p, i)
            /\ \A m, n \in EvalsOfStep(j) :
                  m < n => hist.evals[m].t <= hist.evals[n].t

\* C8: at every moment the sample times of the solution are strictly increasing;
\* each solver step has appended exactly one sample, and a replacement of the
\* last sample (by an event-time or trigger-time state) leaves its time strictly
\* greater than the time of the sample before it.
C8_SolutionStrictlyIncreasing ==
    /\ Len(self.solution) = Len(hist.steps) + 1
    /\ StrictlyIncreasing(self.solution)

\* the phase list ends, directly after the phase of the event e, with a terminal
\* phase at the time of e
EndsWithTerminalPhase(e) ==
    /\ Len(self.flightPhases) = e.phase_index + 2
    /\ Last(self.flightPhases).t = e.t
    /\ Last(self.flightPhases).derivative = None

\* C9: when ground impact is detected, with or without parachutes, the last
\* solution sample is replaced by the impact-time state, the phases after the
\* current one are discarded and a terminal phase at the impact time is appended,
\* no integration step is taken afterwards, and tFinal is the impact time, later
\* than the initial time and not later than maxTime.
C9_ImpactEndsTheFlight ==
    \A k \in 1 .. Len(hist.events) :
        hist.events[k].kind = "impact" =>
            /\ loop.pc # "raised"
            /\ Last(self.solution) = Sample(hist.events[k].t, State(hist.events[k].t, "impact"))
            /\ EndsWithTerminalPhase(hist.events[k])
            /\ Len(hist.steps) = hist.events[k].steps
            /\ self.tInitial < hist.events[k].t
            /\ hist.events[k].t <= self.maxTime
            /\ loop.pc = "done" => self.tFinal = hist.events[k].t

\* C10: with terminateOnApogee set, once apogee is detected the phases after the
\* current one are discarded and a terminal phase at the apogee time is appended,
\* the last solution sample is replaced by (apogeeTime, apogeeState), no
\* integration step covers any time after apogeeTime, and tFinal is apogeeTime.
C10_ApogeeEndsTheFlight ==
    \A k \in 1 .. Len(hist.events) :
        (hist.events[k].kind = "apogee" /\ self.terminateOnApogee) =>
            /\ loop.pc # "raised"
            /\ hist.events[k].t = self.apogeeTime
            /\ Last(self.solution) = Sample(self.apogeeTime, self.apogeeState)
            /\ EndsWithTerminalPhase(hist.events[k])
            /\ \A j \in hist.events[k].steps + 1 .. Len(hist.steps) :
                  hist.steps[j].to <= self.apogeeTime
            /\ loop.pc = "done" => self.tFinal = self.apogeeTime

\* every phase of the list that was inserted after the two initial phases starts
\* at maxTime or earlier
PhasesWithinMaxTime(list) ==
    \A i \in 1 .. Len(list) :
        list[i] \notin Elements(InitialPhases(0, self.maxTime)) => list[i].t <= self.maxTime

\* the current time, the sample times, the inserted phases and tFinal are all at
\* maxTime or earlier
WithinMaxTime ==
    /\ self.t <= self.maxTime
    /\ \A i \in 1 .. Len(self.solution) : self.solution[i].t <= self.maxTime
    /\ PhasesWithinMaxTime(self.flightPhases)
    /\ \A k \in 1 .. Len(hist.fired) : PhasesWithinMaxTime(hist.fired[k].after)
    /\ self.tFinal <= self.maxTime

Terminated ==
    /\ loop.pc = "done"
    /\ ~MorePhases
    /\ self.tFinal = self.t

\* the loop has neither finished nor raised
Running == loop.pc \notin {"done", "raised"}

\* a statement of the loop is executed
Moves == vars' # vars

\* the interpreter keeps executing the loop while it runs: weak fairness of Next,
\* written with the steps of Spec (every step that changes the state is a step of
\* Next) and with the states in which Next is enabled (those where the loop runs)
LoopIsFair == []<><<Moves>>_vars \/ []<>~Running

\* under that fairness the loop always ends, by finishing or by raising
LoopEnds == LoopIsFair => <>~Running

\* a solver that is running has room to advance, so that wherever the loop runs
\* one of its statements can be executed
StepCanAdvance ==
    (loop.pc = "step" /\ loop.solver.status = "running") =>
        loop.solver.t < loop.solver.t_bound

\* C12: provided each solver step advances time or reports finished (every Step
\* of the model does), Flight construction terminates for every combination of
\* rail exit, apogee, impact and parachute triggers: the phase list is exhausted
\* after finitely many steps and tFinal is set.  Every run of the loop is finite
\* (LoopEnds, StepCanAdvance), so the claim is that a construction started
\* without an initial solution stops only where the phase list is exhausted and
\* tFinal is set.
C12_FlightTerminates ==
    (self.initialSolution # GivenSolution /\ ~Running) => Terminated

\* the construction was aborted by the ambiguous-root error of an event handler
AbortedByRoots == loop.pc = "raised" /\ loop.error = "ValueError"

\* C13: if the root search of the rail-exit or impact handler yields more than one
\* valid root, the simulation aborts with a fatal error and no retry, and the
\* handler has changed nothing: the solution, the current time and state, the
\* phase list, the time-node list and the event's summary fields are as they were
\* when the handler started.
C13_AmbiguousRootAborts ==
    AbortedByRoots =>
        /\ hist.handler.kind \in {"railExit", "impact"}
        /\ self = hist.handler.self
        /\ loop.timeNodes = hist.handler.timeNodes
        /\ loop.solver = hist.handler.solver
        /\ ~ENABLED Next

\* the impact handler has aborted the flight on an ambiguous root, in a step in
\* which the apogee handler had run before it
C13_Witness ==
    /\ AbortedByRoots
    /\ hist.handler.kind = "impact"
    /\ self.apogeeState # NoState
    /\ Len(hist.steps) = hist.events[Len(hist.events)].steps

\* no trigger was evaluated at the start time of a phase marked clear
NothingAtClearStart ==
    \A n \in 1 .. Len(hist.evals) :
        hist.evals[n].clear => hist.evals[n].t # hist.evals[n].phaseT

\* parachute p has a sampling instant at time t
SampledAt(p, t) == t % self.rocket.samplingPeriod[p] = 0

\* parachute p was sampled at the start of the phase that starts at phaseT
EvaluatedAtStart(p, phaseT, evals) ==
    \E n \in evals :
        /\ hist.evals[n].parachute = p
        /\ hist.evals[n].t = phaseT
        /\ hist.evals[n].phaseT = phaseT

\* strict sampling: once the first node of a phase not marked clear has been fed,
\* the parachutes with a sampling instant at the start of the phase were sampled
StrictStartSampled ==
    (/\ ~self.timeOvershoot
     /\ loop.pc = "step"
     /\ loop.node_index = 0
     /\ ~loop.phase.clear) =>
        \A p \in Elements(self.parachutes) :
            SampledAt(p, loop.phase.t) =>
                EvaluatedAtStart(p, loop.phase.t, 1 .. Len(hist.evals))

\* overshoot sampling: after the first step of a phase not marked clear, the
\* parachutes with a sampling instant at the start of the phase were sampled
OvershootStartSampled ==
    (self.timeOvershoot /\ loop.pc # "raised") =>
        \A j \in 1 .. Len(hist.steps) :
            (~hist.steps[j].clear /\ hist.steps[j].from = hist.steps[j].phaseT) =>
                \A p \in Elements(hist.steps[j].active) :
                    SampledAt(p, hist.steps[j].phaseT) =>
                        EvaluatedAtStart(p, hist.steps[j].phaseT, EvalsOfStep(j))

\* C15: if a phase is marked clear, no parachute trigger (and no node callback)
\* is evaluated at that phase's own start time, in either sampling discipline; if
\* it is not marked clear, the subscriptions that fall on its start time are
\* evaluated there.
C15_ClearPhaseSkipsItsStart ==
    /\ NothingAtClearStart
    /\ StrictStartSampled
    /\ OvershootStartSampled

----------------------------------------------------------------------------
\* Properties of TimeNodes (checked under SpecNodes)

\* the last two calls on the list were sort and then merge
SortedThenMerged == tn.calls = <<"sort", "merge">>

\* consecutive nodes are at least 1e-7 apart
ApartByEps(list) ==
    \A i \in 1 .. Len(list) - 1 : list[i + 1].t - list[i].t >= EPS

\* how often parachute p occurs in a parachutes list
Count(p, parachutes) == Cardinality({i \in DOMAIN parachutes : parachutes[i] = p})

\* how often parachute p is subscribed over all nodes of a list
RECURSIVE Subscriptions(_, _)
Subscriptions(p, list) ==
    IF list = <<>> THEN 0
    ELSE Count(p, Head(list).parachutes) + Subscriptions(p, Tail(list))

\* the nodes of `before` that lie less than 1e-7 after the retained node
Window(before, retained) ==
    LET Near(node) == retained.t <= node.t /\ node.t < retained.t + EPS
    IN  SelectSeq(before, Near)

\* every node of `before` is in the window of a retained node, and a retained
\* node holds the subscriptions of the nodes in its window
Folded(before, after) ==
    /\ \A i \in 1 .. Len(before) :
           \E k \in 1 .. Len(after) :
               after[k].t <= before[i].t /\ before[i].t < after[k].t + EPS
    /\ \A k \in 1 .. Len(after) :
           /\ \E i \in 1 .. Len(before) : before[i].t = after[k].t
           /\ \A p \in Chutes :
                  Count(p, after[k].parachutes) = Subscriptions(p, Window(before, after[k]))

\* C16: after TimeNodes.sort followed by TimeNodes.merge on a non-empty list,
\* node times are strictly increasing with consecutive nodes at least 1e-7
\* apart, every node that was less than 1e-7 after the node retained before it
\* has been folded into that node, and the parachute subscriptions over all
\* nodes are the same entries with the same multiplicities as before the merge.
C16_SortMergeSeparatesNodes ==
    SortedThenMerged =>
        /\ StrictlyIncreasing(tn.list)
        /\ ApartByEps(tn.list)
        /\ Folded(tn.before, tn.list)
        /\ \A p \in Chutes : Subscriptions(p, tn.list) = Subscriptions(p, tn.before)

\* four nodes were merged into two: a node was folded into each retained node,
\* and the second retained node is less than 1e-7 after a folded node
C16_Witness ==
    /\ SortedThenMerged
    /\ Len(tn.before) = 4
    /\ Len(tn.list) = 2
    /\ \A k \in 1 .. 2 : Len(tn.list[k].parachutes) >= 2
    /\ tn.before[3].t - tn.before[2].t < EPS

----------------------------------------------------------------------------
\* Properties of repeated construction (checked under SpecRuns)

\* two flights have been constructed on the rocket, each after the same seed
BothConstructed == Len(runs.results) = 2 /\ runs.pc = "idle"

\* C17: constructing Flight twice with identical inputs (the same rocket with
\* its parachutes, the same environment and parameters, and the random noise
\* generator reset to the same seed before each construction) yields identical
\* solution arrays and identical phase lists: the parachute is triggered at the
\* same time or in neither flight.
C17_SameInputsSameFlight ==
    BothConstructed => runs.results[1] = runs.results[2]

----------------------------------------------------------------------------
\* Properties of the dynamics models (checked under SpecDynamics)

\* C18: each of the three dynamics models (uDotRail, uDot, uDotParachute),
\* called with verbose off, changes no field of the Flight, the rocket, the
\* environment or the parachutes, and for the same (t, state) returns the same
\* derivative with verbose on as with verbose off.
C18_DynamicsModelsArePure ==
    dyn.model \in Models =>
        /\ ~dyn.verbose => dyn.world = dyn.before
        /\ dyn.ret = Derivative(dyn.model, dyn.before, dyn.t, dyn.u, ~dyn.verbose).ret

\* uDot has been called with verbose off, at a state whose drag direction the
\* verbose mode corrects, on a flight that holds verbose records
C18_Witness ==
    /\ dyn.model = "uDot"
    /\ ~dyn.verbose
    /\ AttackAngle(dyn.u) = "pi"
    /\ Len(dyn.before.flight.R3) = MaxRecords
    /\ dyn.ret[2] # 0

----------------------------------------------------------------------------
\* Properties of the construction from an initial solution (checked under Spec)

\* C19: when an initialSolution array [t0, x, y, z, vx, vy, vz, e0, e1, e2, e3,
\* w1, w2, w3] is passed to Flight, construction proceeds and the simulation
\* starts from it: the first solution sample is that array, the rail phase
\* starts at t0, and the first solver is created at time t0 with that state.
C19_StartsFromInitialSolution ==
    self.initialSolution = GivenSolution =>
        /\ loop.pc # "raised"
        /\ self.solution[1] = self.initialSolution
        /\ self.flightPhases # <<>>
        /\ self.flightPhases[1].t = self.initialSolution.t
        /\ self.flightPhases[1].derivative = "uDotRail"
        /\ loop.solver # NoSolver =>
               (loop.solver.phase_index = 0 => loop.solver.t = self.initialSolution.t)

----------------------------------------------------------------------------
\* Properties of the rail exit (checked under Spec)

\* rail exit has been recorded at most once
RailExitOnce == Len(hist.railExits) <= 1

\* the rail exit handler has left a free-flight phase that starts at the rail
\* exit time directly after the phase it was detected in
FreeFlightInserted ==
    \A n \in 1 .. Len(hist.railExits) :
        LET e == hist.railExits[n] IN
        /\ e.status = "ok"
        /\ InRange(e.flightPhases, e.phase_index + 1)
        /\ PyGet(e.flightPhases, e.phase_index + 1).t = e.t
        /\ PyGet(e.flightPhases, e.phase_index + 1).derivative = "uDot"

\* a step taken after rail exit was detected that ends after outOfRailTime does
\* not integrate the rail model
NoRailModelAfterExit ==
    \A n \in 1 .. Len(hist.railExits) :
        \A j \in hist.railExits[n].steps + 1 .. Len(hist.steps) :
            hist.steps[j].to > hist.railExits[n].t => hist.steps[j].derivative # "uDotRail"

\* every rail exit was detected more than 1e-7 after the start of the phase it
\* was detected in
LateRailExit ==
    \A n \in 1 .. Len(hist.railExits) :
        hist.railExits[n].t > hist.railExits[n].phaseT + EPS

\* C20: the rail model governs integration only up to rail exit: rail exit is
\* recorded at most once per flight, and once it has been detected at time
\* outOfRailTime a free-flight 6DOF phase starting at that time is inserted
\* directly after the current phase and no later integration step that covers
\* time after outOfRailTime uses the rail model.
C20_RailModelUntilRailExit ==
    /\ RailExitOnce
    /\ FreeFlightInserted
    /\ NoRailModelAfterExit

\* C20 (amended): provided rail exit is detected more than 1e-7 s after the start
\* of the phase it is detected in, rail exit is recorded at most once per
\* flight, a free-flight 6DOF phase starting at outOfRailTime is inserted
\* directly after the current phase, and no later integration step that covers
\* time after outOfRailTime uses the rail model.
C20_RailModelUntilLateRailExit ==
    LateRailExit => C20_RailModelUntilRailExit

\* rail exit was detected late in a phase; a trigger of the same step has rolled
\* the flight back, the rail model was integrated again up to outOfRailTime and
\* the free-flight model from there
C20_Witness ==
    /\ Len(hist.railExits) = 1
    /\ LateRailExit
    /\ LET e == hist.railExits[1] IN
       /\ \E j \in e.steps + 1 .. Len(hist.steps) :
              hist.steps[j].derivative = "uDotRail" /\ hist.steps[j].to = e.t
       /\ \E j \in e.steps + 1 .. Len(hist.steps) :
              hist.steps[j].derivative = "uDot" /\ hist.steps[j].from = e.t

\* C21: in the free-flight model the power-on drag curve is used while the motor
\* is burning (time before burnOutTime) and the power-off drag curve is used
\* after burnout, consistently with the branch that selects motor thrust, mass
\* and inertia.
C21_DragFollowsMotorBranch ==
    dyn.model = "uDot" =>
        /\ DragCurve(dyn.before, dyn.t) = DragCurveOfBranch(dyn.before, dyn.t)
        /\ MotorBurning(dyn.before, dyn.t) =>
               dyn.ret[2] = (MotorThrust(dyn.before, dyn.t)
                               - dyn.u.vz * dyn.u.vz * dyn.before.rocket.powerOnDrag)
                                \div dyn.before.rocket.mass - dyn.before.env.g

\* a3 of the call that was made
CalledAcceleration == RailAcceleration(dyn.before, dyn.t, dyn.u)

\* C23: for every (t, state), the rail model returns zero linear acceleration
\* whenever the net axial acceleration a3 is not positive and otherwise an
\* acceleration of magnitude a3 along the body axis; in every case it returns
\* zero derivatives for the quaternion components and the angular velocities.
C23_RailClampsAcceleration ==
    dyn.model = "uDotRail" =>
        /\ Len(dyn.ret) = 4
        /\ dyn.ret[1] = dyn.u.vz
        /\ dyn.ret[2] = (IF CalledAcceleration <= 0 THEN 0 ELSE CalledAcceleration)
        /\ dyn.ret[3] = 0
        /\ dyn.ret[4] = 0

\* the rail held a spinning rocket back
C23_Witness ==
    /\ dyn.model = "uDotRail"
    /\ CalledAcceleration < 0
    /\ dyn.u.omega # 0
    /\ dyn.ret[2] = 0

\* the rail model let the rocket accelerate
C23_Accelerated ==
    /\ dyn.model = "uDotRail"
    /\ CalledAcceleration > 0
    /\ dyn.ret[2] = CalledAcceleration

----------------------------------------------------------------------------
\* Properties of the event handlers (checked under Spec)

\* the events of one kind that have been recorded
EventsOf(kind) == {n \in 1 .. Len(hist.events) : hist.events[n].kind = kind}

\* the samples that bracketed event n when its handler ran: the sample before the
\* step and the last sample as the handler found it
BracketStart(n) == hist.steps[hist.events[n].steps].t0
BracketEnd(n) == hist.events[n].replaced

\* the rail-exit or impact handler found no root inside its bracket
NoRootFound ==
    /\ hist.handler.kind \in {"railExit", "impact"}
    /\ hist.handler.root = NoRoot

\* the events the step that is the latest has recorded
EventsOfLastStep(kind) == {n \in EventsOf(kind) : hist.events[n].steps = Len(hist.steps)}

\* C27: whenever rail exit, apogee or impact is recorded, the recorded event time
\* lies within the step just taken: not before the time of the previous solution
\* sample and not after the end time of the step.  If the rail-exit or impact
\* root search finds no root inside the bracket, the simulation aborts with an
\* error and records no event time for it.
C27_EventTimeWithinStep ==
    /\ \A n \in EventsOf("railExit") \cup EventsOf("apogee") \cup EventsOf("impact") :
          /\ BracketStart(n) <= hist.events[n].t
          /\ hist.events[n].t <= BracketEnd(n)
          /\ BracketEnd(n) <= hist.steps[hist.events[n].steps].to
    /\ (self.outOfRailState # NoState) =>
          \E n \in EventsOf("railExit") : hist.events[n].t = self.outOfRailTime
    /\ (self.apogeeState # NoState) =>
          \E n \in EventsOf("apogee") : hist.events[n].t = self.apogeeTime
    /\ (self.impactState # NoState) =>
          \E n \in EventsOf("impact") : hist.events[n].t = self.impactState.at
    /\ NoRootFound =>
          /\ loop.pc = "raised"
          /\ loop.error = "IndexError"
          /\ EventsOfLastStep(hist.handler.kind) = {}
          /\ self.outOfRailTime = hist.handler.self.outOfRailTime
          /\ self.outOfRailState = hist.handler.self.outOfRailState
          /\ self.impactState = hist.handler.self.impactState
          /\ self.tFinal = hist.handler.self.tFinal

\* rail exit, apogee and impact have been recorded in one flight
C27_Witness ==
    /\ EventsOf("railExit") # {}
    /\ EventsOf("apogee") # {}
    /\ EventsOf("impact") # {}
    /\ loop.pc = "done"

\* the impact handler found no root and aborted a flight that had left the rail
C27_NoRootAborts ==
    /\ NoRootFound
    /\ hist.handler.kind = "impact"
    /\ EventsOf("railExit") # {}
    /\ loop.pc = "raised"

\* C22: apogee is located by the same technique as rail exit and impact: a cubic
\* Hermite polynomial is fitted to the vertical velocity and its derivative at
\* the two bracketing samples, the cubic is solved, only roots inside the open
\* bracket are kept, and the simulation aborts fatally when more than one root
\* survives.  What the technique guarantees for the recorded event: an apogee
\* time, like a rail exit or impact time, lies inside the open bracket.
C22_ApogeeInsideOpenBracket ==
    \A n \in EventsOf("apogee") \cup EventsOf("railExit") \cup EventsOf("impact") :
        BracketStart(n) < hist.events[n].t /\ hist.events[n].t < BracketEnd(n)

----------------------------------------------------------------------------
\* Properties of the parachute configuration (checked under Spec)

\* the parachute-descent model is about to be evaluated by a solver step
DescentModelRuns ==
    /\ loop.pc = "step"
    /\ loop.solver.status = "running"
    /\ loop.solver.derivative = "uDotParachute"

\* the inflation phases among the phases that have started so far
StartedInflations ==
    {k \in 1 .. loop.phase_index + 1 :
        k <= Len(self.flightPhases) /\ self.flightPhases[k].callbacks # <<>>}

MostRecent(indices) == CHOOSE k \in indices : \A other \in indices : other <= k

\* C24: whenever the parachute-descent model is evaluated during a flight,
\* parachuteCdS has been set and equals the CdS of the parachute whose inflation
\* phase started most recently; a later inflation replaces the earlier CdS and a
\* lag phase that re-uses the parachute-descent model keeps the CdS in force.
C24_DescentUsesLatestInflation ==
    DescentModelRuns =>
        /\ StartedInflations # {}
        /\ self.parachuteCdS # 0
        /\ self.parachuteCdS =
               Last(self.flightPhases[MostRecent(StartedInflations)].callbacks)

\* a second parachute has inflated and replaced the CdS of the first
C24_Witness ==
    /\ DescentModelRuns
    /\ Cardinality(StartedInflations) = 2
    /\ self.parachuteCdS =
           Last(self.flightPhases[MostRecent(StartedInflations)].callbacks)
    /\ \E k \in StartedInflations :
           Last(self.flightPhases[k].callbacks) # self.parachuteCdS

\* a lag phase re-uses the parachute-descent model under the CdS in force
C24_LagKeepsCdS ==
    /\ DescentModelRuns
    /\ loop.phase.callbacks = <<>>
    /\ self.parachuteCdS # 0

----------------------------------------------------------------------------
\* Properties of postProcess (checked under Spec)

PostProcessed == hist.post.status # "none"

\* the flight as postProcess found it
Simulated == [Now EXCEPT !.self.parachuteCdS = hist.post.parachuteCdS]

\* the calls the replay made for sample j
ReplaysOf(j) == {r \in hist.post.replayed : r.sample = j}

LaterSamples ==
    {j \in 2 .. Len(self.solution) : self.solution[j].t > self.flightPhases[1].t}

----------------------------------------------------------------------------
\* Properties of the trigger evaluations (checked under Spec)

\* C26: within one flight a parachute's trigger is evaluated at most once for
\* any given sampling instant, in both sampling disciplines, including instants
\* that coincide with the boundary between two solver steps, with the boundary
\* between two phases, or with the time a step was rolled back to.
C26_OneEvaluationPerInstant ==
    \A n1, n2 \in 1 .. Len(hist.evals) :
        (/\ hist.evals[n1].parachute = hist.evals[n2].parachute
         /\ hist.evals[n1].t = hist.evals[n2].t) => n1 = n2

----------------------------------------------------------------------------
\* Properties of the terminal phase (checked under Spec)

\* the phases added without a dynamics model
Sentinels == {k \in 1 .. Len(self.flightPhases) : self.flightPhases[k].derivative = None}

\* a solver has been created for the current phase
SolverCreated == loop.pc \in {"node", "step"}

TerminalEvents ==
    EventsOf("impact") \cup (IF self.terminateOnApogee THEN EventsOf("apogee") ELSE {})

\* every event that ended the flight happened after the start of the phase in
\* which it was detected
TerminalEventsInPhase ==
    \A n \in TerminalEvents : hist.events[n].t > hist.steps[hist.events[n].steps].phaseT

----------------------------------------------------------------------------
\* Properties of the pressure signals (checked under SpecRuns)

\* C29: after any number of trigger evaluations in either sampling discipline,
\* each parachute's cleanPressureSignal and noisyPressureSignal have the same
\* length n and its noiseSignal has length n + 1 (the seed entry plus one per
\* evaluation); for every i, entry i of the noisy signal has the same time as
\* entry i of the clean signal and its value is the clean value plus the noise
\* value recorded for that evaluation.
C29_SignalsStayAligned ==
    /\ Len(runs.noisyPressureSignal) = Len(runs.cleanPressureSignal)
    /\ Len(runs.noiseSignal) = Len(runs.cleanPressureSignal) + 1
    /\ \A i \in 1 .. Len(runs.cleanPressureSignal) :
          /\ i <= Len(runs.noisyPressureSignal)
          /\ i + 1 <= Len(runs.noiseSignal)
          /\ runs.noisyPressureSignal[i][1] = runs.cleanPressureSignal[i][1]
          /\ runs.noiseSignal[i + 1][1] = runs.cleanPressureSignal[i][1]
          /\ runs.noisyPressureSignal[i][2] =
                 runs.cleanPressureSignal[i][2] + runs.noiseSignal[i + 1][2]

\* two flights have fed the parachute, with noise that is not zero
C29_Witness ==
    /\ Len(runs.results) = 2
    /\ Len(runs.cleanPressureSignal) >= 4
    /\ \E i \in 1 .. Len(runs.cleanPressureSignal) :
          runs.noisyPressureSignal[i][2] # runs.cleanPressureSignal[i][2]

----------------------------------------------------------------------------
\* Properties of LiquidMotor (checked under SpecMotor)

TanksAdded == motor.added # <<>>

\* the mass properties are those of the tanks added so far
MassPropertiesReflectTanks ==
    LET M == Total([k \in DOMAIN motor.added |-> TankMass(motor.added[k])])
        B == Total([k \in DOMAIN motor.added |-> TankBalance(motor.added[k])])
        Axis(positioned_tank) ==
            positioned_tank.tank.inertiaXX * M * M
            + positioned_tank.tank.mass
              * ((positioned_tank.position + positioned_tank.tank.centerOfMass) * M - B)
              * ((positioned_tank.position + positioned_tank.tank.centerOfMass) * M - B)
    IN  /\ motor.positioned_tanks = motor.added
        /\ motor.centerOfMass = Quotient(B, M)
        /\ motor.Ixx = Quotient(Total([k \in DOMAIN motor.added |-> Axis(motor.added[k])]), M * M)
        /\ motor.Iyy = motor.Ixx

\* the mass flow rate, and a mass read from it, are those of the tanks added so far
FlowReflectsTanks ==
    /\ motor.massFlowRate = Whole(Total([k \in DOMAIN motor.added |-> TankFlow(motor.added[k])]))
    /\ motor.read.status # "none" =>
          /\ motor.read.status = "ok"
          /\ motor.read.mass = Total([k \in DOMAIN motor.added |-> TankFlow(motor.added[k])]) * motor.read.t

\* C30: after any sequence of LiquidMotor.addTank calls, positioned_tanks holds
\* the added tanks with their positions in insertion order, and every quantity
\* the motor derives from its tanks is defined and reflects all tanks added so
\* far: centerOfMass is the sum of tank mass times (position + tank
\* centerOfMass) divided by the total tank mass, Ixx equals Iyy and is the
\* parallel-axis sum about that center of mass, and the mass flow rate read by
\* mass(t) is the sum of the tanks' net mass flow rates.
C30_MotorReflectsItsTanks ==
    TanksAdded => (MassPropertiesReflectTanks /\ FlowReflectsTanks)

\* what addTank does keep up to date
C30_MassPropertiesKept == TanksAdded => MassPropertiesReflectTanks

\* a tank was added after the mass flow rate had been evaluated, and the mass was read
C30_StaleFlow ==
    /\ Len(motor.added) = 2
    /\ motor.read.status = "ok"
    /\ motor.read.t > 0
    /\ motor.read.mass = motor.added[1].tank.netMassFlowRate * motor.read.t

====
